---- MODULE Spec2Model ----
(***************************************************************************)
(* Model of app.py (e4-dashboard): the per-route forecast cache, the risk  *)
(* classifier, the start-time parser, the hourly selector and the          *)
(* /api/status handler.                                                    *)
(*                                                                         *)
(* Conventions                                                             *)
(*  - instants are wall-clock seconds (Europe/Stockholm) counted from      *)
(*    00:00 of the first date of DateToks; time.time() is whole seconds;   *)
(*  - temperature, precipitation and wind are floats, kept in tenths       *)
(*    (0.5 mm is 5); NaN is the float nan, None is JSON null, Missing is   *)
(*    an absent key or array slot;                                         *)
(*  - strings that the code parses are sequences of tokens: one token per  *)
(*    character, except that a calendar date "YYYY-MM-DD" and a UTC        *)
(*    offset "+00:00" are one token each;                                  *)
(*  - lat/lon of a waypoint are carried through unchanged by the code and  *)
(*    are left out of the waypoint records.                                *)
(***************************************************************************)
EXTENDS Integers, Sequences, FiniteSets, TLC

VARIABLES CACHE, clock, pc, route, now, entry, raw, ret,
          rk_in, rk_out,
          sel_hourly, sel_eta, sel_out,
          args, cached, resp

cacheVars == <<CACHE, clock, pc, route, now, entry, raw, ret>>
riskVars == <<rk_in, rk_out>>
selVars == <<sel_hourly, sel_eta, sel_out>>
statusVars == <<args, cached, resp>>
vars == <<CACHE, clock, pc, route, now, entry, raw, ret,
          rk_in, rk_out, sel_hourly, sel_eta, sel_out, args, cached, resp>>

(***************************************************************************)
(* Bounds of the model                                                     *)
(***************************************************************************)
NThreads == 2
MaxClock == 601

Threads == 1..NThreads

(***************************************************************************)
(* Program constants and the route registry                                *)
(***************************************************************************)
TTL == 600
DefaultSpeed == 85
SecPerHour == 3600

DefaultRoute == "E4_SKEL_STH"

RouteIds == {"E4_SKEL_STH", "E6_GBG_MLM", "E18_KSD_STH"}

Pt(n, d) == [name |-> n, distance_km_from_prev |-> d]

ROUTES ==
  [rid \in RouteIds |->
     CASE rid = "E4_SKEL_STH" ->
            [label |-> "E4: Skelleftea - Stockholm",
             points |-> << Pt("Skelleftea", 0), Pt("Umea", 140),
                           Pt("Ornskoldsvik", 115), Pt("Sundsvall", 110),
                           Pt("Hudiksvall", 100), Pt("Gavle", 90),
                           Pt("Uppsala", 95), Pt("Stockholm", 70) >>]
       [] rid = "E6_GBG_MLM" ->
            [label |-> "E6: Goteborg - Malmo",
             points |-> << Pt("Goteborg", 0), Pt("Kungsbacka", 30),
                           Pt("Varberg", 55), Pt("Halmstad", 70),
                           Pt("Helsingborg", 100), Pt("Malmo", 70) >>]
       [] rid = "E18_KSD_STH" ->
            [label |-> "E18: Karlstad - Stockholm",
             points |-> << Pt("Karlstad", 0), Pt("Orebro", 110),
                           Pt("Vasteras", 90), Pt("Enkoping", 35),
                           Pt("Stockholm", 80) >>]]

(***************************************************************************)
(* Float / JSON values                                                     *)
(***************************************************************************)
\* A value is a record: a number (k = "num", v its value), the float nan,
\* the float inf, JSON null, or an absent key / array slot.
Num(n) == [k |-> "num", v |-> n]
NaN == [k |-> "nan", v |-> 0]
Inf == [k |-> "inf", v |-> 0]
None == [k |-> "null", v |-> 0]
Missing == [k |-> "missing", v |-> 0]

\* IEEE comparisons of a float with a finite constant: every comparison
\* with nan is false. (inf reaches the classifier from no input of the
\* model.)
FGe(a, n) == a.k = "num" /\ a.v >= n
FGt(a, n) == a.k = "num" /\ a.v > n
FLe(a, n) == a.k = "num" /\ a.v <= n

(***************************************************************************)
(* Strings and instants                                                    *)
(***************************************************************************)
Digits == <<"0", "1", "2", "3", "4", "5", "6", "7", "8", "9">>
DigitSet == {Digits[i] : i \in 1..10}
DigitVal(c) == (CHOOSE i \in 1..10 : Digits[i] = c) - 1

\* The calendar dates of the model, in order; an instant is the number of
\* seconds since 00:00 of the first.
DateToks == <<"2026-01-02", "2026-01-03", "2026-01-04">>
DateSet == {DateToks[i] : i \in 1..Len(DateToks)}
DateDay(c) == (CHOOSE i \in 1..Len(DateToks) : DateToks[i] = c) - 1

\* int(s) of a two-character slice (line 82): [ok, v]; ok is FALSE where
\* int raises ValueError. (int also takes a sign or a blank beside one
\* digit; no input of the model has one.)
Int2(a, b) ==
  IF a \in DigitSet /\ b \in DigitSet
    THEN [ok |-> TRUE, v |-> 10 * DigitVal(a) + DigitVal(b)]
    ELSE [ok |-> FALSE, v |-> 0]

At(d, hh, mm, ss) == ((d * 24 + hh) * 60 + mm) * 60 + ss

ParseError == [ok |-> FALSE, t |-> 0, off |-> "naive"]

\* datetime.fromisoformat on the shapes the model feeds it:
\*   DATE | DATE T HH:MM | DATE T HH:MM:SS, each optionally followed by the
\*   offset +00:00.
\* [ok, t, off]: ok is FALSE where it raises ValueError; t is the wall-clock
\* instant as written; off is "naive" or the offset.
fromisoformat(s) ==
  LET n == Len(s)
      aware == n >= 1 /\ s[n] = "+00:00"
      m == IF aware THEN n - 1 ELSE n
      off == IF aware THEN "+00:00" ELSE "naive"
  IN  IF m = 0 \/ ~(s[1] \in DateSet) THEN ParseError
      ELSE IF m = 1 THEN [ok |-> TRUE, t |-> At(DateDay(s[1]), 0, 0, 0), off |-> off]
      ELSE IF m \in {7, 10} /\ s[2] = "T" /\ s[5] = ":"
                /\ (m = 10 => s[8] = ":")
        THEN LET hh == Int2(s[3], s[4])
                 mm == Int2(s[6], s[7])
                 ss == IF m = 10 THEN Int2(s[9], s[10]) ELSE [ok |-> TRUE, v |-> 0]
             IN  IF hh.ok /\ mm.ok /\ ss.ok /\ hh.v < 24 /\ mm.v < 60 /\ ss.v < 60
                   THEN [ok |-> TRUE, t |-> At(DateDay(s[1]), hh.v, mm.v, ss.v),
                         off |-> off]
                   ELSE ParseError
      ELSE ParseError

\* line 93: eta_dt.replace(minute=0, second=0, microsecond=0)
FloorHour(t) == t - (t % 3600)

\* lines 94 and 216: strftime("%Y-%m-%dT%H:00")
strftime_hour(t) ==
  LET d == t \div 86400
      hh == (t % 86400) \div 3600
  IN  <<DateToks[d + 1], "T", Digits[(hh \div 10) + 1], Digits[(hh % 10) + 1],
        ":", "0", "0">>

\* line 226: strftime("%H:%M")
strftime_clock(t) ==
  LET hh == (t % 86400) \div 3600
      mm == (t % 3600) \div 60
  IN  <<Digits[(hh \div 10) + 1], Digits[(hh % 10) + 1], ":",
        Digits[(mm \div 10) + 1], Digits[(mm % 10) + 1]>>

\* Europe/Stockholm is UTC+1 on the dates of the model (January).
UtcOffset == 3600

(***************************************************************************)
(* Time parser                                                             *)
(***************************************************************************)
\* s.strip() on the inputs of the model: blanks at either end
RECURSIVE lstrip(_)
lstrip(s) == IF s # <<>> /\ Head(s) = " " THEN lstrip(Tail(s)) ELSE s
RECURSIVE rstrip(_)
rstrip(s) ==
  IF s # <<>> /\ s[Len(s)] = " " THEN rstrip(SubSeq(s, 1, Len(s) - 1)) ELSE s
strip(s) == rstrip(lstrip(s))

Contains(s, c) == \E i \in 1..Len(s) : s[i] = c

\* lines 69-86. start_str is NoArg when the parameter is absent; nowRef is
\* datetime.now(TZ). Every exception raised in the try block is caught.
NoArg == <<"<absent>">>

parse_start_time(start_str, nowRef) ==
  IF start_str = NoArg \/ start_str = <<>> THEN nowRef
  ELSE LET s == strip(start_str)
       IN  IF Contains(s, "T")
             THEN LET dt == fromisoformat(s)
                  IN  IF ~dt.ok THEN nowRef
                      ELSE IF dt.off = "naive" THEN dt.t
                      ELSE dt.t + UtcOffset
           ELSE IF Len(s) = 5 /\ s[3] = ":"
             THEN LET hh == Int2(s[1], s[2])
                      mm == Int2(s[4], s[5])
                  IN  IF hh.ok /\ mm.ok /\ hh.v < 24 /\ mm.v < 60
                        THEN At(nowRef \div 86400, hh.v, mm.v, 0)
                        ELSE nowRef
           ELSE nowRef

(***************************************************************************)
(* Hourly selector                                                         *)
(***************************************************************************)
Abs(x) == IF x < 0 THEN -x ELSE x

\* line 97: times.index(target_str); 0 where it raises ValueError
index(times, x) ==
  IF \E i \in 1..Len(times) : times[i] = x
    THEN CHOOSE i \in 1..Len(times) :
           times[i] = x /\ \A j \in 1..(i - 1) : times[j] # x
    ELSE 0

\* line 106 with <= for <
Closer_orEqual(diff, best_diff) == best_diff = -1 \/ diff <= best_diff
\* line 106: best_diff is None or diff < best_diff (None is -1 here)
Closer(diff, best_diff) == best_diff = -1 \/ diff < best_diff

\* lines 99-109: the scan from entry i on, with the best so far
RECURSIVE scan(_, _, _, _, _)
scan(times, target, i, best_i, best_diff) ==
  IF i > Len(times) THEN best_i
  ELSE LET t == fromisoformat(times[i])
       IN  IF ~t.ok THEN scan(times, target, i + 1, best_i, best_diff)
           ELSE LET diff == Abs(t.t - target)
                IN  IF Closer(diff, best_diff)
                      THEN scan(times, target, i + 1, i, diff)
                      ELSE scan(times, target, i + 1, best_i, best_diff)

\* lines 111-113: arr[idx] if idx < len(arr) else default. An absent key of
\* hourly reads as the empty array (hourly.get(name, [])).
get(arr, idx, default) == IF idx <= Len(arr) THEN arr[idx] ELSE default

NoPick == [found |-> FALSE]

\* lines 115-121: the entry at idx
pick_at(hourly, idx) ==
  [found |-> TRUE,
   time |-> hourly.time[idx],
   temperature_2m |-> get(hourly.temperature_2m, idx, None),
   precipitation |-> get(hourly.precipitation, idx, Num(0)),
   wind_speed_10m |-> get(hourly.wind_speed_10m, idx, None),
   weather_code |-> get(hourly.weather_code, idx, Num(-1))]

\* lines 96-109: the exact match if index found one, else the scan's result
index_or_scan(times, target, hit) ==
  IF hit # 0 THEN hit ELSE scan(times, target, 1, 1, -1)

\* lines 93-109: idx for the floored target
choose_idx(times, target) ==
  index_or_scan(times, target, index(times, strftime_hour(target)))

\* lines 88-121; found is FALSE for the None result
choose_hourly_at_eta(hourly, eta_dt) ==
  IF hourly.time = <<>> THEN NoPick
  ELSE pick_at(hourly, choose_idx(hourly.time, FloorHour(eta_dt)))

\* Inputs of the selector specification
MaxSeries == 3

Stamp(d, a, b) == <<DateToks[d], "T", a, b, ":", "0", "0">>
SelStamps ==
  { Stamp(1, "0", "9"), Stamp(1, "1", "0"), Stamp(1, "1", "2"),
    Stamp(1, "1", "3"),
    <<DateToks[1], "T", "1", "0", ":", "0", "0", ":", "0", "0">>,
    <<DateToks[1], "T", "1", "1", ":", "3", "0">>,
    <<"n", "/", "a">> }
SelTargets ==
  { At(0, 10, 0, 0), At(0, 10, 59, 0), At(0, 11, 0, 0), At(0, 11, 20, 30),
    At(0, 12, 30, 0), At(0, 8, 0, 0), At(0, 14, 0, 0) }

SeqsUpTo(S, n) == UNION {[1..k -> S] : k \in 0..n}

\* The value arrays carry the position of each entry (temperature i at
\* entry i), so that the result tells which entry was picked.
InitSel ==
  /\ \E ts \in SeqsUpTo(SelStamps, MaxSeries) :
        sel_hourly = [time |-> ts,
                      temperature_2m |-> [i \in 1..Len(ts) |-> Num(i)],
                      precipitation |-> [i \in 1..Len(ts) |-> Num(0)],
                      wind_speed_10m |-> [i \in 1..Len(ts) |-> Num(0)],
                      weather_code |-> [i \in 1..Len(ts) |-> Num(0)]]
  /\ sel_eta \in SelTargets
  /\ sel_out = [called |-> FALSE]

Select ==
  /\ ~sel_out.called
  /\ sel_out' = [called |-> TRUE,
                 pick |-> choose_hourly_at_eta(sel_hourly, sel_eta)]
  /\ UNCHANGED <<sel_hourly, sel_eta>>

(***************************************************************************)
(* Risk classifier                                                         *)
(***************************************************************************)
RED == "ROD"
YELLOW == "GUL"
GREEN == "GRON"
NoData == "-"

\* risk with the ice rule tried before the wind rule
risk_iceFirst(temp, p, wind, code) ==
  LET snow == (71 <= code /\ code <= 77) \/ (code \in {85, 86})
      freeze == code \in {66, 67}
  IN  IF FGt(p, 0) /\ FGe(temp, -10) /\ FLe(temp, 10)
        THEN <<RED, "Nederbord runt 0C (halka-risk)">>
      ELSE IF FGe(wind, 150) THEN <<RED, "Mycket blasigt (>=15 m/s)">>
      ELSE IF freeze THEN <<RED, "Underkylt/frysregn">>
      ELSE IF snow /\ FGe(p, 5) THEN <<RED, "Snofall">>
      ELSE IF snow \/ FGt(p, 0) \/ FGe(wind, 100)
        THEN <<YELLOW, "Vinterforhallanden">>
      ELSE <<GREEN, "Stabilt">>

\* lines 51-67; temp, p and wind in tenths
risk(temp, p, wind, code) ==
  LET snow == (71 <= code /\ code <= 77) \/ (code \in {85, 86})
      freeze == code \in {66, 67}
  IN  IF FGe(wind, 150) THEN <<RED, "Mycket blasigt (>=15 m/s)">>
      ELSE IF FGt(p, 0) /\ FGe(temp, -10) /\ FLe(temp, 10)
        THEN <<RED, "Nederbord runt 0C (halka-risk)">>
      ELSE IF freeze THEN <<RED, "Underkylt/frysregn">>
      ELSE IF snow /\ FGe(p, 5) THEN <<RED, "Snofall">>
      ELSE IF snow \/ FGt(p, 0) \/ FGe(wind, 100)
        THEN <<YELLOW, "Vinterforhallanden">>
      ELSE <<GREEN, "Stabilt">>

\* Inputs of the classifier specification: values on both sides of every
\* threshold, nan, and codes inside, at the edge of and outside the ranges.
RiskTemps == {Num(n) : n \in {-11, -10, 0, 10, 11}} \cup {NaN}
RiskPrecips == {Num(n) : n \in {0, 1, 4, 5, 10}} \cup {NaN}
RiskWinds == {Num(n) : n \in {0, 99, 100, 149, 150, 200}} \cup {NaN}
RiskCodes == {-1, 0, 3, 65, 66, 67, 68, 70, 71, 77, 78, 84, 85, 86, 87}

InitRisk ==
  /\ rk_in \in [temp : RiskTemps, p : RiskPrecips, wind : RiskWinds,
                code : RiskCodes]
  /\ rk_out = [called |-> FALSE]

Classify ==
  /\ ~rk_out.called
  /\ LET r == risk(rk_in.temp, rk_in.p, rk_in.wind, rk_in.code)
     IN  rk_out' = [called |-> TRUE, level |-> r[1], reason |-> r[2]]
  /\ UNCHANGED rk_in

(***************************************************************************)
(* Forecast cache: get_cached_route called from status, one caller per     *)
(* thread of the server.                                                   *)
(***************************************************************************)
NoEntry == [present |-> FALSE, ts |-> 0, updated |-> 0, raw |-> <<>>]

\* What the provider answers for a coordinate in the cache specification.
UpstreamCur == [temperature_2m |-> Num(20), precipitation |-> Num(0),
                wind_speed_10m |-> Num(30), weather_code |-> Num(0)]
UpstreamHourly == [time |-> <<>>, temperature_2m |-> <<>>,
                   precipitation |-> <<>>, wind_speed_10m |-> <<>>,
                   weather_code |-> <<>>]

\* line 139 with the condition always true
NeedsRefresh_always(e, n) == TRUE
\* line 139: if not entry or now - entry["ts"] > TTL
NeedsRefresh(e, n) == (~e.present) \/ (n - e.ts > TTL)

\* line 142 with the loop left after the first waypoint
LoopDone_early(t) == Len(raw[t]) >= 1
\* line 142: the loop over route["points"] has run to its end
LoopDone(t) == Len(raw[t]) = Len(ROUTES[route[t]].points)

\* Clock steps: a TTL, and one second more, so that ages of exactly TTL
\* (still fresh) and TTL + 1 (stale) both occur.
TickSteps == {TTL, TTL + 1}

\* The route ids the callers of this specification ask for. CACHE is keyed
\* by every id of ROUTES; the other ids stay absent.
Requested == {"E18_KSD_STH"}

InitCache ==
  /\ CACHE = [rid \in RouteIds |-> NoEntry]
  /\ clock = 0
  /\ pc = [t \in Threads |-> "idle"]
  /\ route = [t \in Threads |-> DefaultRoute]
  /\ now = [t \in Threads |-> 0]
  /\ entry = [t \in Threads |-> NoEntry]
  /\ raw = [t \in Threads |-> <<>>]
  /\ ret = [t \in Threads |-> NoEntry]

\* status line 176 calls get_cached_route(route_id); line 137 reads the clock
ReadClock(t, rid) ==
  /\ pc[t] = "idle"
  /\ route' = [route EXCEPT ![t] = rid]
  /\ now' = [now EXCEPT ![t] = clock]
  /\ pc' = [pc EXCEPT ![t] = "get"]
  /\ UNCHANGED <<CACHE, clock, entry, raw, ret>>

\* lines 138-141
ReadEntry(t) ==
  /\ pc[t] = "get"
  /\ entry' = [entry EXCEPT ![t] = CACHE[route[t]]]
  /\ IF NeedsRefresh(CACHE[route[t]], now[t])
       THEN pc' = [pc EXCEPT ![t] = "fetch"]
       ELSE pc' = [pc EXCEPT ![t] = "ret"]
  /\ raw' = [raw EXCEPT ![t] = <<>>]
  /\ UNCHANGED <<CACHE, clock, route, now, ret>>

\* lines 143-144 with fetch_point returning normally. by is a history field
\* (the code keeps none): the thread whose refresh fetched the item.
FetchOk(t) ==
  /\ pc[t] = "fetch"
  /\ ~LoopDone(t)
  /\ raw' = [raw EXCEPT ![t] =
               Append(@, [p |-> ROUTES[route[t]].points[Len(@) + 1], cur |-> UpstreamCur,
                          hourly |-> UpstreamHourly, by |-> t])]
  /\ UNCHANGED <<CACHE, clock, pc, route, now, entry, ret>>

\* line 143 with fetch_point raising (timeout, HTTP error, bad JSON):
\* nothing catches it in get_cached_route or status
FetchFail(t) ==
  /\ pc[t] = "fetch"
  /\ ~LoopDone(t)
  /\ pc' = [pc EXCEPT ![t] = "failed"]
  /\ UNCHANGED <<CACHE, clock, route, now, entry, raw, ret>>

\* lines 145-149
Commit(t) ==
  /\ pc[t] = "fetch"
  /\ LoopDone(t)
  /\ CACHE' = [CACHE EXCEPT ![route[t]] =
                 [present |-> TRUE, ts |-> now[t], updated |-> clock,
                  raw |-> raw[t]]]
  /\ pc' = [pc EXCEPT ![t] = "ret"]
  /\ UNCHANGED <<clock, route, now, entry, raw, ret>>

\* line 150: return CACHE[route_id]
Return(t) ==
  /\ pc[t] = "ret"
  /\ ret' = [ret EXCEPT ![t] = CACHE[route[t]]]
  /\ pc' = [pc EXCEPT ![t] = "done"]
  /\ UNCHANGED <<CACHE, clock, route, now, entry, raw>>

\* the request is over (response sent, or the exception turned into a 500)
\* and the server thread takes the next request
Finish(t) ==
  /\ pc[t] \in {"done", "failed"}
  /\ pc' = [pc EXCEPT ![t] = "idle"]
  /\ route' = [route EXCEPT ![t] = DefaultRoute]
  /\ now' = [now EXCEPT ![t] = 0]
  /\ entry' = [entry EXCEPT ![t] = NoEntry]
  /\ raw' = [raw EXCEPT ![t] = <<>>]
  /\ ret' = [ret EXCEPT ![t] = NoEntry]
  /\ UNCHANGED <<CACHE, clock>>

Tick(d) ==
  /\ clock + d <= MaxClock
  /\ clock' = clock + d
  /\ UNCHANGED <<CACHE, pc, route, now, entry, raw, ret>>

(***************************************************************************)
(* /api/status: the handler after get_cached_route has returned an entry   *)
(***************************************************************************)
RECURSIVE DigitsVal(_)
DigitsVal(s) ==
  IF s = <<>> THEN 0
  ELSE 10 * DigitsVal(SubSeq(s, 1, Len(s) - 1)) + DigitVal(s[Len(s)])

AllDigits(s) == s # <<>> /\ \A i \in 1..Len(s) : s[i] \in DigitSet

\* float(str) on the inputs of the model: blanks stripped, then "nan", "inf",
\* or an optional "-" and decimal digits; [ok, val], ok FALSE where float
\* raises ValueError
pyfloat(str) ==
  LET u == strip(str)
  IN  IF u = <<"n", "a", "n">> THEN [ok |-> TRUE, val |-> NaN]
      ELSE IF u = <<"i", "n", "f">> THEN [ok |-> TRUE, val |-> Inf]
      ELSE IF AllDigits(u) THEN [ok |-> TRUE, val |-> Num(DigitsVal(u))]
      ELSE IF u # <<>> /\ Head(u) = "-" /\ AllDigits(Tail(u))
        THEN [ok |-> TRUE, val |-> Num(-DigitsVal(Tail(u)))]
      ELSE [ok |-> FALSE, val |-> NaN]

\* lines 164-166
NoRouteArg == "<absent>"
resolve_route(arg) ==
  LET route_id == IF arg = NoRouteArg THEN "E4_SKEL_STH" ELSE arg
  IN  IF route_id \notin RouteIds THEN "E4_SKEL_STH" ELSE route_id

\* lines 169-174, speed in km/h; nan <= 0 and inf <= 0 are false
resolve_speed(arg) ==
  LET f == pyfloat(IF arg = NoArg THEN <<"8", "5">> ELSE arg)
  IN  IF ~f.ok THEN Num(DefaultSpeed)
      ELSE IF f.val.k = "num" /\ f.val.v <= 0 THEN Num(DefaultSpeed)
      ELSE f.val

\* lines 183-187 without the running sum: each waypoint's own distance
cum_km_own(rawItems, i) == rawItems[i].p.distance_km_from_prev
\* lines 181-187: cum_km after the pass for the i-th item (1-based)
RECURSIVE cum_km(_, _)
cum_km(rawItems, i) ==
  IF i = 1 THEN 0
  ELSE cum_km(rawItems, i - 1) + rawItems[i].p.distance_km_from_prev

\* line 188: timedelta(seconds=(cum_km / speed_kmh) * 3600), to the nearest
\* second (timedelta keeps microseconds). [ok, d]: ok FALSE where timedelta raises (x / nan is nan, and
\* timedelta(seconds=nan) raises ValueError); x / inf is 0.
eta_delta(km, speed) ==
  IF speed.k = "nan" THEN [ok |-> FALSE, d |-> 0]
  ELSE IF speed.k = "inf" THEN [ok |-> TRUE, d |-> 0]
  ELSE [ok |-> TRUE,
        d |-> (2 * km * SecPerHour + speed.v) \div (2 * speed.v)]

\* float(cur.get(name, float("nan"))) of lines 197-199: [ok, val]; float(None)
\* raises TypeError
cur_float(x) ==
  IF x = Missing THEN [ok |-> TRUE, val |-> NaN]
  ELSE IF x = None THEN [ok |-> FALSE, val |-> NaN]
  ELSE [ok |-> TRUE, val |-> x]

\* int(cur.get("weather_code", -1)) of line 200, and int(...) of line 209
pyint(x, default) ==
  IF x = Missing THEN [ok |-> TRUE, v |-> default]
  ELSE IF x = None THEN [ok |-> FALSE, v |-> default]
  ELSE [ok |-> TRUE, v |-> x.v]

\* lines 206-208: float(x) if x is not None else float("nan")
eta_float(x) == IF x = None THEN NaN ELSE x

\* line 201 and lines 223: the "now" part from the converted values
now_part(t, p, w, c, r) ==
  [ok |-> t.ok /\ p.ok /\ w.ok /\ c.ok,
   t |-> t.val, p |-> p.val, w |-> w.val, code |-> c.v,
   risk |-> r[1], reason |-> r[2]]

now_risk(t, p, w, c) == now_part(t, p, w, c, risk(t.val, p.val, w.val, c.v))

\* lines 196-201
now_of(cur) ==
  now_risk(cur_float(cur.temperature_2m), cur_float(cur.precipitation),
           cur_float(cur.wind_speed_10m), pyint(cur.weather_code, -1))

\* lines 210-211 and 224-229; at is the instant eta_dt behind clock
eta_part(time, eta_dt, t, p, w, c, r) ==
  [ok |-> c.ok, time |-> time, clock |-> strftime_clock(eta_dt),
   at |-> eta_dt, t |-> t, p |-> p, w |-> w, code |-> c.v,
   risk |-> r[1], reason |-> r[2]]

eta_risk(time, eta_dt, t, p, w, c) ==
  eta_part(time, eta_dt, t, p, w, c, risk(t, p, w, c.v))

\* lines 205-216
eta_of(eta_pick, eta_dt) ==
  IF eta_pick.found
    THEN eta_risk(eta_pick.time, eta_dt,
                  eta_float(eta_pick.temperature_2m),
                  eta_float(eta_pick.precipitation),
                  eta_float(eta_pick.wind_speed_10m),
                  pyint(eta_pick.weather_code, -1))
    ELSE eta_part(strftime_hour(eta_dt), eta_dt, NaN, NaN, NaN,
                  [ok |-> TRUE, v |-> -1], <<NoData, "Ingen prognos">>)

\* lines 218-230: the record of one item; ok FALSE where the loop body or
\* line 188 raised for it
point_rec(item, km, delta_ok, n, e) ==
  [ok |-> delta_ok /\ n.ok /\ e.ok,
   name |-> item.p.name,
   km_from_start |-> km,
   now |-> [t |-> n.t, p |-> n.p, w |-> n.w, code |-> n.code,
            risk |-> n.risk, reason |-> n.reason],
   eta |-> [time |-> e.time, clock |-> e.clock, at |-> e.at,
            t |-> e.t, p |-> e.p, w |-> e.w, code |-> e.code,
            risk |-> e.risk, reason |-> e.reason]]

\* lines 192-204 for an item arriving at eta_dt
point_at(item, km, delta_ok, eta_dt) ==
  point_rec(item, km, delta_ok, now_of(item.cur),
            eta_of(choose_hourly_at_eta(item.hourly, eta_dt), eta_dt))

\* line 188 and lines 192-230 for an item at km from the start
point_km(item, km, start, delta) ==
  point_at(item, km, delta.ok, start + delta.d)

\* lines 183-230 for the i-th item (1-based)
point(rawItems, i, start, speed) ==
  point_km(rawItems[i], cum_km(rawItems, i), start,
           eta_delta(cum_km(rawItems, i), speed))

\* lines 232-239. status is "error" where the handler raised (the client
\* gets a 500); the values resolved before it did are kept.
response(route_id, start, speed_kmh, got, pts, allOk) ==
  [called |-> TRUE,
   status |-> IF allOk THEN "ok" ELSE "error",
   route_id |-> route_id,
   route_label |-> ROUTES[route_id].label,
   updated |-> got.updated,
   start |-> start,
   speed_kmh |-> speed_kmh,
   points |-> IF allOk THEN pts ELSE <<>>]

\* lines 176-230: the records of all items of the entry
points_of(route_id, start, speed_kmh, got, pts) ==
  response(route_id, start, speed_kmh, got, pts,
           \A i \in 1..Len(pts) : pts[i].ok)

status_of(route_id, start, speed_kmh, got) ==
  points_of(route_id, start, speed_kmh, got,
            [i \in 1..Len(got.raw) |-> point(got.raw, i, start, speed_kmh)])

\* lines 162-239: entryOf is what get_cached_route returns for a route id,
\* nowRef is datetime.now(TZ)
status_for(route_id, a, entryOf, nowRef) ==
  status_of(route_id, parse_start_time(a.start, nowRef),
            resolve_speed(a.speed), entryOf[route_id])

status(a, entryOf, nowRef) ==
  status_for(resolve_route(a.route), a, entryOf, nowRef)

\* Inputs of the status specification
NowRef == At(0, 8, 0, 0)

Chars(a, b, c, d, e) == <<a, b, c, d, e>>
RouteArgs == {NoRouteArg, "E4_SKEL_STH", "E6_GBG_MLM", "E18_KSD_STH",
              "E99_NOWHERE"}
StartArgs ==
  { NoArg, <<>>,
    Chars("1", "0", ":", "0", "0"),
    <<" ", "1", "0", ":", "3", "0", " ">>,
    Chars("9", "9", ":", "9", "9"),
    Chars("a", "b", ":", "c", "d"),
    <<"T", "o", "d", "a", "y">>,
    Stamp(1, "2", "2"),
    Stamp(1, "1", "0") \o <<"+00:00">> }
SpeedArgs ==
  { NoArg, <<>>, <<"8", "5">>, <<"1", "0", "0">>, <<"5", "0">>, <<"0">>,
    <<"-", "5">>, <<"a", "b", "c">>, <<"n", "a", "n">>, <<"i", "n", "f">> }

CurOk == [temperature_2m |-> Num(-5), precipitation |-> Num(2),
          wind_speed_10m |-> Num(40), weather_code |-> Num(71)]
CurBare == [temperature_2m |-> Missing, precipitation |-> Missing,
            wind_speed_10m |-> Missing, weather_code |-> Missing]
CurNull == [temperature_2m |-> None, precipitation |-> Num(0),
            wind_speed_10m |-> Num(40), weather_code |-> Num(0)]

Hours3 == <<Stamp(1, "1", "0"), Stamp(1, "1", "1"), Stamp(1, "1", "2")>>
HEmpty == [time |-> <<>>, temperature_2m |-> <<>>, precipitation |-> <<>>,
           wind_speed_10m |-> <<>>, weather_code |-> <<>>]
HGood == [time |-> Hours3,
          temperature_2m |-> <<Num(0), Num(-50), Num(30)>>,
          precipitation |-> <<Num(10), Num(0), Num(0)>>,
          wind_speed_10m |-> <<Num(30), Num(160), Num(50)>>,
          weather_code |-> <<Num(0), Num(71), Num(3)>>]
HNullValues == [time |-> Hours3,
                temperature_2m |-> <<None, None, None>>,
                precipitation |-> <<None, None, None>>,
                wind_speed_10m |-> <<None, None, None>>,
                weather_code |-> <<Num(0), Num(0), Num(0)>>]
HNullCode == [time |-> Hours3,
              temperature_2m |-> <<Num(0), Num(-50), Num(30)>>,
              precipitation |-> <<Num(10), Num(0), Num(0)>>,
              wind_speed_10m |-> <<Num(30), Num(160), Num(50)>>,
              weather_code |-> <<None, None, None>>]
HTimesOnly == [time |-> Hours3, temperature_2m |-> <<>>,
               precipitation |-> <<>>, wind_speed_10m |-> <<>>,
               weather_code |-> <<>>]

Payloads ==
  { [cur |-> CurOk, hourly |-> HGood],
    [cur |-> CurOk, hourly |-> HEmpty],
    [cur |-> CurBare, hourly |-> HNullValues],
    [cur |-> CurOk, hourly |-> HNullCode],
    [cur |-> CurOk, hourly |-> HTimesOnly],
    [cur |-> CurNull, hourly |-> HGood] }

\* A complete entry of a route: the odd waypoints got payload a from the
\* provider, the even ones payload b.
EntryOf(rid, a, b) ==
  [present |-> TRUE, ts |-> 0, updated |-> 0,
   raw |-> [i \in 1..Len(ROUTES[rid].points) |->
              LET w == IF i % 2 = 1 THEN a ELSE b
              IN  [p |-> ROUTES[rid].points[i], cur |-> w.cur,
                   hourly |-> w.hourly, by |-> 1]]]

InitStatus ==
  /\ args \in [route : RouteArgs, start : StartArgs, speed : SpeedArgs]
  /\ \E a, b \in Payloads :
        cached = [rid \in RouteIds |-> EntryOf(rid, a, b)]
  /\ resp = [called |-> FALSE]

Status ==
  /\ ~resp.called
  /\ resp' = status(args, cached, NowRef)
  /\ UNCHANGED <<args, cached>>

(***************************************************************************)
(* Claims about the forecast cache (specification Spec)                    *)
(***************************************************************************)
InFlight(rid) == {t \in Threads : pc[t] = "fetch" /\ route[t] = rid}

\* C1: for every route id at most one refresh is in flight at any time.
C1_AtMostOneRefreshInFlight ==
  \A rid \in RouteIds : Cardinality(InFlight(rid)) <= 1

\* C2 (as claimed): a request fails on an upstream fetch failure only if its
\* lookup found no prior entry for the route.
C2_FailureOnlyWithoutPriorEntry ==
  \A t \in Threads : pc[t] = "failed" => ~entry[t].present

\* C2 (amended): a request fails on an upstream fetch failure only if it had
\* to refresh, that is, its lookup found no entry or an entry older than the
\* TTL, and then it is handed no entry, prior or new; a request that finds
\* an entry aged at most the TTL never fails.
C2_FailureOnlyOnRefresh ==
  \A t \in Threads :
     pc[t] = "failed" =>
        /\ (~entry[t].present) \/ (now[t] - entry[t].ts > TTL)
        /\ ~ret[t].present

\* A request failed although a (stale) prior entry existed.
C2_Witness ==
  \E t \in Threads :
     pc[t] = "failed" /\ entry[t].present /\ CACHE[route[t]] = entry[t]

Complete(e, rid) ==
  /\ Len(e.raw) = Len(ROUTES[rid].points)
  /\ \A i \in 1..Len(e.raw) :
        /\ e.raw[i].p = ROUTES[rid].points[i]
        /\ e.raw[i].by = e.raw[1].by

EntriesComplete ==
  \A rid \in RouteIds : CACHE[rid].present => Complete(CACHE[rid], rid)

\* C3: when a fetch fails during a refresh the error reaches the caller and
\* CACHE[route_id] is what the lookup found (same entry, or still absent);
\* no entry holding a subset of the waypoints is ever stored.
C3_FailedRefreshLeavesCache ==
  /\ [][\A t \in Threads :
          (pc[t] = "fetch" /\ pc'[t] = "failed")
             => CACHE'[route[t]] = entry[t]]_vars
  /\ []EntriesComplete

Hit(t) == entry[t].present /\ now[t] - entry[t].ts <= TTL

\* C4: two lookups of the same route id that find the entry aged at most the
\* TTL fetch nothing and return entries with the same fetch timestamp: if
\* the later of the two still falls within the TTL of what the earlier one
\* returned, both returned the same timestamp.
C4_SameWindowSameTimestamp ==
  \A t1, t2 \in Threads :
     (/\ pc[t1] = "done" /\ pc[t2] = "done"
      /\ route[t1] = route[t2]
      /\ Hit(t1) /\ Hit(t2)
      /\ now[t1] <= now[t2]
      /\ now[t2] - ret[t1].ts <= TTL)
        => ret[t1].ts = ret[t2].ts

\* C5: every entry readable from CACHE, and every entry a reader holds, is
\* complete: one item per waypoint of its route, in route order, all from
\* one refresh.
C5_ReadableEntriesComplete ==
  /\ EntriesComplete
  /\ \A t \in Threads :
        /\ entry[t].present => Complete(entry[t], route[t])
        /\ ret[t].present => Complete(ret[t], route[t])

\* A refresh of a route is half way while a prior entry of that route is in
\* CACHE and another caller has just been handed it.
C5_Witness ==
  \E t, u \in Threads :
     /\ t # u
     /\ pc[t] = "fetch" /\ Len(raw[t]) >= 1 /\ ~LoopDone(t)
     /\ CACHE[route[t]].present
     /\ pc[u] = "done" /\ route[u] = route[t] /\ ret[u] = CACHE[route[t]]

\* Each specification runs one part of the program; the variables of the
\* other parts rest at these values.
IdleCache ==
  /\ InitCache
IdleRisk == rk_in = <<>> /\ rk_out = [called |-> FALSE]
IdleSel == sel_hourly = <<>> /\ sel_eta = 0 /\ sel_out = [called |-> FALSE]
IdleStatus == args = <<>> /\ cached = <<>> /\ resp = [called |-> FALSE]

Init == InitCache /\ IdleRisk /\ IdleSel /\ IdleStatus

Next ==
  \/ \E t \in Threads, rid \in Requested :
        ReadClock(t, rid) /\ UNCHANGED <<riskVars, selVars, statusVars>>
  \/ \E t \in Threads : ReadEntry(t) /\ UNCHANGED <<riskVars, selVars, statusVars>>
  \/ \E t \in Threads : FetchOk(t) /\ UNCHANGED <<riskVars, selVars, statusVars>>
  \/ \E t \in Threads : FetchFail(t) /\ UNCHANGED <<riskVars, selVars, statusVars>>
  \/ \E t \in Threads : Commit(t) /\ UNCHANGED <<riskVars, selVars, statusVars>>
  \/ \E t \in Threads : Return(t) /\ UNCHANGED <<riskVars, selVars, statusVars>>
  \/ \E t \in Threads : Finish(t) /\ UNCHANGED <<riskVars, selVars, statusVars>>
  \/ \E d \in TickSteps : Tick(d) /\ UNCHANGED <<riskVars, selVars, statusVars>>

Spec == Init /\ [][Next]_vars

(***************************************************************************)
(* Specification of the risk classifier                                    *)
(***************************************************************************)
InitR == InitRisk /\ IdleCache /\ IdleSel /\ IdleStatus

NextR == Classify /\ UNCHANGED <<cacheVars, selVars, statusVars>>

SpecRisk == InitR /\ [][NextR]_vars

\* The rule list of the classifier, each rule with the inputs it covers.
Snowy(c) == c \in (71..77) \cup {85, 86}
Rule1(i) == i.wind # NaN /\ i.wind.v >= 150
Rule2(i) == i.p # NaN /\ i.temp # NaN /\ i.p.v > 0 /\ i.temp.v \in -10..10
Rule3(i) == i.code \in {66, 67}
Rule4(i) == Snowy(i.code) /\ i.p # NaN /\ i.p.v >= 5
Rule5(i) == \/ Snowy(i.code)
            \/ (i.p # NaN /\ i.p.v > 0)
            \/ (i.wind # NaN /\ i.wind.v >= 100)

\* C6: risk is total and returns what the first matching rule of the list
\* gives: 1 high wind, 2 ice risk, 3 freezing rain, 4 heavy snow (all RED),
\* 5 winter conditions (YELLOW), 6 stable (GREEN).
C6_RiskFirstMatchWins ==
  rk_out.called =>
    LET i == rk_in
        o == <<rk_out.level, rk_out.reason>>
    IN  /\ Rule1(i) => o = <<RED, "Mycket blasigt (>=15 m/s)">>
        /\ (~Rule1(i) /\ Rule2(i))
              => o = <<RED, "Nederbord runt 0C (halka-risk)">>
        /\ (~Rule1(i) /\ ~Rule2(i) /\ Rule3(i))
              => o = <<RED, "Underkylt/frysregn">>
        /\ (~Rule1(i) /\ ~Rule2(i) /\ ~Rule3(i) /\ Rule4(i))
              => o = <<RED, "Snofall">>
        /\ (~Rule1(i) /\ ~Rule2(i) /\ ~Rule3(i) /\ ~Rule4(i) /\ Rule5(i))
              => o = <<YELLOW, "Vinterforhallanden">>
        /\ (~Rule1(i) /\ ~Rule2(i) /\ ~Rule3(i) /\ ~Rule4(i) /\ ~Rule5(i))
              => o = <<GREEN, "Stabilt">>
        /\ o[1] \in {RED, YELLOW, GREEN}

\* wind 20, temp 0, precipitation 1, code 67: rules 1, 2 and 3 all match and
\* the high-wind reason is returned.
C6_Witness ==
  /\ rk_out.called
  /\ rk_in = [temp |-> Num(0), p |-> Num(10), wind |-> Num(200), code |-> 67]
  /\ rk_out.reason = "Mycket blasigt (>=15 m/s)"

(***************************************************************************)
(* Specification of the hourly selector                                    *)
(***************************************************************************)
InitS == InitSel /\ IdleCache /\ IdleRisk /\ IdleStatus

NextS == Select /\ UNCHANGED <<cacheVars, riskVars, statusVars>>

SpecSelect == InitS /\ [][NextS]_vars

Parses(ts) == fromisoformat(ts).ok
Dist(ts, eta) == Abs(fromisoformat(ts).t - (eta - (eta % 3600)))

\* C7: no match for an empty series; otherwise the first entry whose
\* timestamp is the floored target if there is one, else the entry nearest to
\* the floored target, the earliest of several at the same distance. The
\* entry returned is at the least distance of all entries.
C7_NearestHourEarliestIndex ==
  sel_out.called =>
    LET ts == sel_hourly.time
        eta == sel_eta
        pick == sel_out.pick
        k == pick.temperature_2m.v
        floorStr == strftime_hour(eta - (eta % 3600))
        exact == {i \in 1..Len(ts) : ts[i] = floorStr}
        good == {i \in 1..Len(ts) : Parses(ts[i])}
    IN  /\ pick.found <=> ts # <<>>
        /\ pick.found => k \in 1..Len(ts) /\ pick.time = ts[k]
        /\ (pick.found /\ exact # {})
              => k \in exact /\ \A j \in exact : k <= j
        /\ (pick.found /\ exact = {} /\ good # {})
              => /\ k \in good
                 /\ \A j \in good : Dist(ts[k], eta) <= Dist(ts[j], eta)
                 /\ \A j \in good :
                       Dist(ts[j], eta) = Dist(ts[k], eta) => k <= j
        /\ (pick.found /\ good # {})
              => /\ k \in good
                 /\ \A j \in good : Dist(ts[k], eta) <= Dist(ts[j], eta)
        /\ (ts = <<Stamp(1, "1", "0"), Stamp(1, "1", "2")>>
              /\ eta = At(0, 10, 59, 0))
              => pick.time = Stamp(1, "1", "0")

\* Entries at 10:00 and 12:00, target 11:20:30: both are one hour from the
\* floored target and the earlier one, 10:00, is returned.
C7_Witness ==
  /\ sel_out.called
  /\ sel_hourly.time = <<Stamp(1, "1", "0"), Stamp(1, "1", "2")>>
  /\ sel_eta = At(0, 11, 20, 30)
  /\ sel_out.pick.found
  /\ sel_out.pick.time = Stamp(1, "1", "0")

(***************************************************************************)
(* Specification of the status handler                                     *)
(***************************************************************************)
InitQ == InitStatus /\ IdleCache /\ IdleRisk /\ IdleSel

NextQ == Status /\ UNCHANGED <<cacheVars, riskVars, selVars>>

SpecStatus == InitQ /\ [][NextQ]_vars

RECURSIVE SumDist(_, _)
SumDist(points, i) ==
  IF i = 0 THEN 0 ELSE SumDist(points, i - 1) + points[i].distance_km_from_prev

\* C8: in a status response km_from_start of waypoint i is the sum of the
\* distances-from-previous of waypoints 0..i, it is 0 for waypoint 0 and
\* never decreases; the arrival instant is start + km_from_start / speed
\* hours (to the second), so waypoint 0 arrives at start and arrivals never
\* decrease along the route.
C8_CumulativeDistanceAndArrival ==
  (resp.called /\ resp.status = "ok") =>
    LET pts == resp.points
        route_points == ROUTES[resp.route_id].points
        v == resp.speed_kmh
    IN  /\ Len(pts) = Len(route_points)
        /\ pts[1].km_from_start = 0
        /\ pts[1].eta.at = resp.start
        /\ \A i \in 1..Len(pts) :
              /\ pts[i].km_from_start = SumDist(route_points, i)
              /\ i > 1 => /\ pts[i].km_from_start >= pts[i - 1].km_from_start
                          /\ pts[i].eta.at >= pts[i - 1].eta.at
              /\ v.k = "num" =>
                    2 * Abs(v.v * (pts[i].eta.at - resp.start)
                              - pts[i].km_from_start * 3600) <= v.v

\* E18 at 100 km/h from 10:00: Orebro (110 km) at 11:06, Stockholm (315 km)
\* at 13:09.
C8_Witness ==
  /\ resp.called /\ resp.status = "ok"
  /\ resp.route_id = "E18_KSD_STH"
  /\ resp.speed_kmh = Num(100)
  /\ resp.start = At(0, 10, 0, 0)
  /\ resp.points[2].km_from_start = 110
  /\ resp.points[2].eta.at = At(0, 11, 6, 0)
  /\ resp.points[5].km_from_start = 315
  /\ resp.points[5].eta.at = At(0, 13, 9, 0)

\* The cached samples hold no JSON null.
NoNulls(e) ==
  \A i \in 1..Len(e.raw) :
     /\ \A f \in {"temperature_2m", "precipitation", "wind_speed_10m",
                  "weather_code"} :
           /\ e.raw[i].cur[f] # None
           /\ \A j \in 1..Len(e.raw[i].hourly[f]) : e.raw[i].hourly[f][j] # None

\* C9: whatever the route, start and speed parameters are, the request
\* resolves them to a registered route id, an instant and a strictly
\* positive finite speed, and goes through the ETA computation without
\* raising.
C9_MalformedInputNeverFails ==
  (resp.called /\ NoNulls(cached[resp.route_id])) =>
     /\ resp.route_id \in RouteIds
     /\ resp.start \in Nat
     /\ resp.speed_kmh.k = "num" /\ resp.speed_kmh.v > 0
     /\ resp.status = "ok"

CurUsable(e) ==
  \A i \in 1..Len(e.raw) :
     \A f \in {"temperature_2m", "precipitation", "wind_speed_10m",
               "weather_code"} : e.raw[i].cur[f] # None

\* C10: for every waypoint the eta risk is the no-data sentinel with reason
\* "no forecast", and eta time the arrival instant to the hour, exactly when
\* the hourly series gives no match; otherwise it is the classifier's result
\* on the selected sample. A waypoint without usable forecast values never
\* makes the request fail.
C10_NoForecastNeverFails ==
  (resp.called /\ resp.speed_kmh.k = "num"
     /\ CurUsable(cached[resp.route_id])) =>
     /\ resp.status = "ok"
     /\ \A i \in 1..Len(resp.points) :
           LET e == resp.points[i].eta
               h == cached[resp.route_id].raw[i].hourly
           IN  /\ e.risk = NoData <=> h.time = <<>>
               /\ h.time = <<>> =>
                     /\ e.reason = "Ingen prognos"
                     /\ e.time = strftime_hour(e.at)
               /\ h.time # <<>> => e.risk \in {RED, YELLOW, GREEN}

====
